---- MODULE Spec2Model ----
(***************************************************************************)
(* FunctionCallAgent (src/src/ii_agent/agents/function_call.py): the turn  *)
(* loop run_impl, its entry point run_agent_async, cancel(), and the       *)
(* event fan-out consumer _process_messages, as one state machine.         *)
(*                                                                         *)
(* The loop is an asyncio coroutine: it is atomic between its two awaits   *)
(* (the model call and the tool execution), so it has one action per       *)
(* stretch of code between awaits.  The consumer is a second task with     *)
(* awaits at queue.get() and websocket.send_json().                        *)
(*                                                                         *)
(* MessageHistory and AgentToolManager are not part of the sources at      *)
(* hand; their operations are modelled from the design document.           *)
(***************************************************************************)
EXTENDS Naturals, Integers, Sequences, FiniteSets, TLC

\* ---------------------------------------------------------------- bounds
\* The max_turns of the constructor is drawn from 0..MaxTurnsBound.
MaxTurnsBound == 2
\* Number of run_agent_async calls on the one agent instance.
MaxRuns == 2
\* With the consumer in the model, the model client and the tools answer (and a run
\* starts) only while fewer events than this were emitted: after that the pending
\* call hangs, as the loop sets no timeout.
MaxEvents == 3
\* Number of Events.save_event calls that raise.
MaxSaveFailures == 1
\* The token budget of the Ledger, counted in Turns.
TokenBudget == 4

\* ------------------------------------------------------------- constants
TOOL_RESULT_INTERRUPT_MESSAGE == "Tool execution interrupted by user."
AGENT_INTERRUPT_MESSAGE == "Agent interrupted by user."
TOOL_CALL_INTERRUPT_FAKE_MODEL_RSP ==
    "Tool execution interrupted by user. You can resume by providing a new instruction."
AGENT_INTERRUPT_FAKE_MODEL_RSP ==
    "Agent interrupted by user. You can resume by providing a new instruction."
\* ii_agent.utils.constants.COMPLETE_MESSAGE: imported, its text is not in the sources.
COMPLETE_MESSAGE == "COMPLETE_MESSAGE"
TASK_COMPLETED == "Task completed"
MAX_TURNS_ANSWER == "Agent did not complete after max turns"
\* What tools return: an ordinary result, and a final answer when a tool stops the run.
TOOL_OUTPUT == "tool output"
FINAL_ANSWER == "final answer"
MODEL_TEXT == "model text"
MODEL_THINKING == "model thinking"
\* The text of the agent-thinking event of a reasoning block (run_impl wraps it).
WRAPPED_THINKING == "Thinking: model thinking"

\* EventType
USER_MESSAGE == "user_message"
TOOL_CALL == "tool_call"
TOOL_RESULT == "tool_result"
AGENT_THINKING == "agent_thinking"
AGENT_RESPONSE == "agent_response"
AGENT_RESPONSE_INTERRUPTED == "agent_response_interrupted"

VARIABLES
    \* the agent
    history,          \* self.history: the Ledger, a sequence of Turns
    interrupted,      \* self.interrupted
    should_stop,      \* self.tool_manager.should_stop()
    tools,            \* the names of self.tool_manager.get_tools(), in order
    max_turns,        \* self.max_turns
    session_id,       \* self.session_id is not None
    websocket,        \* self.websocket is not None
    \* one run of run_impl
    pc,               \* where the run stands
    remaining_turns,  \* the local remaining_turns
    model_response,   \* what client.generate returned last, before any substitution
    tool_call,        \* the local tool_call while run_tool is outstanding (id 0: none)
    result,           \* the ToolImplOutput the run returned
    \* the model client and the caller
    nextId,           \* the next tool_call_id the model hands out
    modelCalls,       \* client.generate calls made by the current run
    toolRuns,         \* tool_manager.run_tool calls made by the current run
    cancelAt,         \* where the current run stood when cancel() was last called
    runs,             \* run_agent_async calls so far
    emittedAtStart,   \* events put into the queue before the current run started
    \* the event channel and its consumer
    message_queue,    \* self.message_queue: the events not yet taken
    unfinished,       \* unfinished tasks of the queue (put_nowait adds one, task_done takes one)
    emitted,          \* every event put into the queue, in order
    consumer,         \* where _process_messages stands
    message,          \* the local message while send_json is outstanding
    persisted,        \* what Events.save_event stored, in order
    sent,             \* what websocket.send_json delivered, in order
    saveErrors,       \* seq numbers of the events whose save raised (the error log)
    sendFailedAt      \* seq number of the event whose send raised (the warning log), 0: none

agentVars == <<history, interrupted, should_stop, tools, max_turns, session_id>>
runVars == <<pc, remaining_turns, model_response, tool_call, result, nextId, modelCalls, toolRuns,
             cancelAt, runs, emittedAtStart>>
channelVars == <<message_queue, unfinished, emitted>>
consumerVars == <<websocket, consumer, message, persisted, sent, saveErrors, sendFailedAt>>
vars == <<agentVars, runVars, channelVars, consumerVars>>

\* ------------------------------------------------------------ data model
\* A content block of a model response.
TextResult(text) == [t |-> "text", id |-> 0, text |-> text]
AnthropicThinkingBlock(text) == [t |-> "thinking", id |-> 0, text |-> text]
ToolCall(id) == [t |-> "tool", id |-> id, text |-> ""]

\* A Turn of the Ledger.
UserTurn == [kind |-> "user", blocks |-> <<>>, id |-> 0, text |-> "instruction"]
AssistantTurn(blocks) == [kind |-> "assistant", blocks |-> blocks, id |-> 0, text |-> ""]
ToolResultTurn(id, text) == [kind |-> "tool_result", blocks |-> <<>>, id |-> id, text |-> text]

RealtimeEvent(type, id, text) == [type |-> type, id |-> id, text |-> text]
ToolImplOutput(out, msg) == [tool_output |-> out, tool_result_message |-> msg]
NoOutput == [tool_output |-> "none", tool_result_message |-> "none"]

\* The shapes of a model response: the kinds of its blocks, in order.
ResponseShapes ==
    { <<>>, <<"thinking", "text">>, <<"text", "tool">>, <<"tool", "tool">> }

\* The tool sets an agent is built with: tool names, in registration order.
ToolSets == { <<1, 2>>, <<2, 1, 2>> }

Terminal == {"Completed", "MaxTurnsExceeded", "InterruptedTerminal", "Raised"}
Returned == {"Completed", "MaxTurnsExceeded", "InterruptedTerminal"}

\* ------------------------------------------------- History Ledger (4.1)
add_user_prompt(h) == Append(h, UserTurn)

history_add_assistant_turn(h, blocks) == Append(h, AssistantTurn(blocks))

history_add_tool_call_result(h, call, text) == Append(h, ToolResultTurn(call.id, text))

\* Index of the last Turn of kind k in h, 0 when there is none.
LastOfKind(h, k) ==
    LET S == {i \in 1..Len(h) : h[i].kind = k}
    IN IF S = {} THEN 0 ELSE CHOOSE i \in S : \A j \in S : j <= i

\* The identifiers answered by a tool-result Turn after position i.
AnsweredAfter(h, i) == {h[j].id : j \in {k \in (i + 1)..Len(h) : h[k].kind = "tool_result"}}

IsOpenCall(h, i, b) == b.t = "tool" /\ b.id \notin AnsweredAfter(h, i)

\* The tool invocations of the most recent assistant Turn that have no tool-result yet.
get_pending_tool_calls(h) ==
    LET i == LastOfKind(h, "assistant")
    IN IF i = 0 THEN <<>>
       ELSE SelectSeq(h[i].blocks, LAMBDA b : IsOpenCall(h, i, b))

\* An estimate: every Turn costs one token.
count_tokens(h) == Len(h)

\* The Turn at position i holds a tool invocation whose result is not appended.
HasOrphan(h, i) ==
    /\ h[i].kind = "assistant"
    /\ \E n \in 1..Len(h[i].blocks) : IsOpenCall(h, i, h[i].blocks[n])

\* Where the second exchange starts: the position of the second user Turn, 0 when
\* the Ledger holds one exchange only (the latest, open one).
SecondExchange(h) ==
    LET S == {i \in 2..Len(h) : h[i].kind = "user"}
    IN IF S = {} THEN 0 ELSE CHOOSE i \in S : \A j \in S : i <= j

\* Drops whole oldest exchanges (a user Turn and what follows it up to the next user
\* Turn) until the Ledger fits the budget; never the latest exchange, never a Turn
\* whose tool-call result has not been appended.
RECURSIVE truncate(_)
truncate(h) ==
    LET k == SecondExchange(h)
    IN IF count_tokens(h) <= TokenBudget \/ k = 0 THEN h
       ELSE IF \E i \in 1..(k - 1) : HasOrphan(h, i) THEN h
       ELSE truncate(SubSeq(h, k, Len(h)))

clear == <<>>

\* -------------------------------------------- Tool Registry & Executor (4.2)
\* sorted(tool_names): insertion sort.
RECURSIVE Insert(_, _)
Insert(x, s) ==
    IF s = <<>> THEN <<x>>
    ELSE IF x <= Head(s) THEN <<x>> \o s
    ELSE <<Head(s)>> \o Insert(x, Tail(s))

RECURSIVE sorted(_)
sorted(s) == IF s = <<>> THEN <<>> ELSE Insert(Head(s), sorted(Tail(s)))

\* _validate_tool_parameters raises ValueError: two adjacent sorted names are equal.
ToolDuplicated(tool_names) ==
    LET sorted_names == sorted(tool_names)
    IN \E i \in 1..(Len(sorted_names) - 1) : sorted_names[i] = sorted_names[i + 1]

\* ------------------------------------------------------ the event channel
\* The events of evs numbered from n + 1 on: the position of each in the channel.
Numbered(evs, n) ==
    [i \in 1..Len(evs) |->
        [type |-> evs[i].type, id |-> evs[i].id, text |-> evs[i].text, seq |-> n + i]]

\* message_queue.put_nowait for each event of evs, in order.
PutAll(evs) ==
    /\ message_queue' = message_queue \o Numbered(evs, Len(emitted))
    /\ emitted' = emitted \o Numbered(evs, Len(emitted))
    /\ unfinished' = unfinished + Len(evs)

\* --------------------------------------------------- Turn Loop (run_impl)
NoCall == ToolCall(0)
NoMessage == [type |-> "none", id |-> 0, text |-> "", seq |-> 0]

\* Mutant of add_fake_assistant_turn: the synthetic Turn is appended twice.
add_fake_assistant_turn_Twice(h, text) ==
    history_add_assistant_turn(history_add_assistant_turn(h, <<TextResult(text)>>),
                               <<TextResult(text)>>)

\* Mutant of the event of add_fake_assistant_turn: an agent-thinking event is put.
FakeTurnEvent_Thinking(text, intr) == RealtimeEvent(AGENT_THINKING, 0, text)

\* Mutant of the event of add_fake_assistant_turn: the flag is not looked at.
FakeTurnEvent_Plain(text, intr) == RealtimeEvent(AGENT_RESPONSE, 0, text)

\* add_fake_assistant_turn: the Turn it appends, and the event it puts.
add_fake_assistant_turn(h, text) == history_add_assistant_turn(h, <<TextResult(text)>>)

FakeTurnEvent(text, intr) ==
    RealtimeEvent(IF intr THEN AGENT_RESPONSE_INTERRUPTED ELSE AGENT_RESPONSE, 0, text)

\* Mutants of add_tool_call_result: the Turn appended twice; the Turn not appended.
add_tool_call_result_Twice(h, call, text) ==
    history_add_tool_call_result(history_add_tool_call_result(h, call, text), call, text)

add_tool_call_result_Dropped(h, call, text) == h

\* add_tool_call_result of the agent: the Turn it appends, and the event it puts.
add_tool_call_result(h, call, text) == history_add_tool_call_result(h, call, text)

ToolResultEvent(call, text) == RealtimeEvent(TOOL_RESULT, call.id, text)

\* Mutant of the tool-call event: the identifier of the call is left out.
ToolCallEvent_NoId(call) == RealtimeEvent(TOOL_CALL, 0, "")

ToolCallEvent(call) == RealtimeEvent(TOOL_CALL, call.id, "")

\* Mutant of the loop condition: one turn too many.
TurnBudgetLeft_OffByOne(r) == r >= 0

\* while remaining_turns > 0
TurnBudgetLeft(r) == r > 0

\* Where the run stands after a stretch of code: the values it leaves.
Outcome(p, h, r, evs, res, called, call) ==
    [pc |-> p, history |-> h, remaining_turns |-> r, evs |-> evs, result |-> res,
     called |-> called, tool_call |-> call]

\* From the loop condition to the model call (or to a return): h, r and intr are the
\* Ledger, remaining_turns and the flag on arrival, evs the events already put in
\* this stretch.
LoopTop(h, r, intr, evs) ==
    IF ~TurnBudgetLeft(r)
    THEN Outcome("MaxTurnsExceeded", h, r,
                 Append(evs, RealtimeEvent(AGENT_RESPONSE, 0, MAX_TURNS_ANSWER)),
                 ToolImplOutput(MAX_TURNS_ANSWER, MAX_TURNS_ANSWER), 0, NoCall)
    ELSE IF ToolDuplicated(tools)
    THEN Outcome("Raised", truncate(h), r - 1, evs, NoOutput, 0, NoCall)
    ELSE IF intr
    THEN Outcome("InterruptedTerminal",
                 add_fake_assistant_turn(truncate(h), AGENT_INTERRUPT_FAKE_MODEL_RSP),
                 r - 1,
                 Append(evs, FakeTurnEvent(AGENT_INTERRUPT_FAKE_MODEL_RSP, intr)),
                 ToolImplOutput(AGENT_INTERRUPT_MESSAGE, AGENT_INTERRUPT_MESSAGE),
                 0, NoCall)
    ELSE Outcome("AwaitingModel", truncate(h), r - 1, evs, NoOutput, 1, NoCall)

\* The assignments every stretch of run_impl ends with.
Leave(o) ==
    /\ pc' = o.pc
    /\ history' = o.history
    /\ remaining_turns' = o.remaining_turns
    /\ result' = o.result
    /\ tool_call' = o.tool_call
    /\ PutAll(o.evs)

\* Mutant of run_agent_async: the Ledger is cleared whatever resume says.
StartRun_AlwaysClears(resume) ==
    /\ pc \in {"Idle"} \cup Terminal
    /\ runs < MaxRuns
    /\ LET o == LoopTop(add_user_prompt(clear), max_turns, FALSE, <<>>)
       IN /\ Leave(o)
          /\ modelCalls' = o.called
    /\ should_stop' = FALSE
    /\ interrupted' = FALSE
    /\ runs' = runs + 1
    /\ emittedAtStart' = Len(emitted)
    /\ toolRuns' = 0
    /\ cancelAt' = "none"
    /\ UNCHANGED <<tools, max_turns, session_id, model_response, nextId, consumerVars>>

\* Mutant of run_impl: the flag is not reset when the run starts.
StartRun_KeepsFlag(resume) ==
    /\ pc \in {"Idle"} \cup Terminal
    /\ runs < MaxRuns
    /\ LET h0 == IF resume THEN history ELSE clear
           o == LoopTop(add_user_prompt(h0), max_turns, interrupted, <<>>)
       IN /\ Leave(o)
          /\ modelCalls' = o.called
    /\ should_stop' = FALSE
    /\ interrupted' = interrupted
    /\ runs' = runs + 1
    /\ emittedAtStart' = Len(emitted)
    /\ toolRuns' = 0
    /\ cancelAt' = "none"
    /\ UNCHANGED <<tools, max_turns, session_id, model_response, nextId, consumerVars>>

\* run_agent_async, and run_impl up to its first await or return.
StartRun(resume) ==
    /\ pc \in {"Idle"} \cup Terminal
    /\ runs < MaxRuns
    /\ LET h0 == IF resume THEN history ELSE clear
           o == LoopTop(add_user_prompt(h0), max_turns, FALSE, <<>>)
       IN /\ Leave(o)
          /\ modelCalls' = o.called
    /\ should_stop' = FALSE
    /\ interrupted' = FALSE
    /\ runs' = runs + 1
    /\ emittedAtStart' = Len(emitted)
    /\ toolRuns' = 0
    /\ cancelAt' = "none"
    /\ UNCHANGED <<tools, max_turns, session_id, model_response, nextId, consumerVars>>

\* The blocks of a response of the given shape; its tool invocations get fresh ids.
ToolsBefore(shape, i) == Cardinality({j \in 1..(i - 1) : shape[j] = "tool"})

Blocks(shape, first) ==
    [i \in 1..Len(shape) |->
        IF shape[i] = "tool" THEN ToolCall(first + ToolsBefore(shape, i))
        ELSE IF shape[i] = "thinking" THEN AnthropicThinkingBlock(MODEL_THINKING)
        ELSE TextResult(MODEL_TEXT)]

\* Mutant of the agent-thinking events: one for every block, tool invocations included.
ThinkingEvents_EveryBlock(response) ==
    [i \in 1..Len(response) |->
        RealtimeEvent(AGENT_THINKING, 0,
                      IF response[i].t = "thinking" THEN WRAPPED_THINKING
                      ELSE response[i].text)]

\* One agent-thinking event per text or reasoning block, in order.
IsTextResult(b) == b.t = "text" \/ b.t = "thinking"

ThinkingEvents(response) ==
    LET text_results == SelectSeq(response, IsTextResult)
    IN [i \in 1..Len(text_results) |->
           RealtimeEvent(AGENT_THINKING, 0,
                         IF text_results[i].t = "thinking" THEN WRAPPED_THINKING
                         ELSE text_results[i].text)]

\* Mutant of the substitution: the empty response is kept.
Substituted_Raw(rsp) == rsp

\* if len(model_response) == 0
Substituted(rsp) == IF Len(rsp) = 0 THEN <<TextResult(COMPLETE_MESSAGE)>> ELSE rsp

\* Mutant of the contract check: two pending calls pass.
TooManyCalls_OffByOne(pending_tool_calls) == Len(pending_tool_calls) > 2

\* if len(pending_tool_calls) > 1: raise
TooManyCalls(pending_tool_calls) == Len(pending_tool_calls) > 1

\* tool_call = pending_tool_calls[0]
FirstCall(pending_tool_calls) == pending_tool_calls[1]

\* From the return of client.generate to the tool execution (or to a return).
AfterModel(rsp, h, r, intr) ==
    LET response == Substituted(rsp)
        h1 == history_add_assistant_turn(h, response)
        pending_tool_calls == get_pending_tool_calls(h1)
        thinking == ThinkingEvents(response)
    IN IF Len(pending_tool_calls) = 0
       THEN Outcome("Completed", h1, r,
                    Append(thinking, RealtimeEvent(AGENT_RESPONSE, 0, TASK_COMPLETED)),
                    ToolImplOutput("", TASK_COMPLETED), 0, NoCall)
       ELSE IF TooManyCalls(pending_tool_calls)
       THEN Outcome("Raised", h1, r, thinking, NoOutput, 0, NoCall)
       ELSE LET call == FirstCall(pending_tool_calls)
                evs == Append(thinking, ToolCallEvent(call))
            IN IF intr
               THEN Outcome("InterruptedTerminal",
                            add_fake_assistant_turn(
                                add_tool_call_result(h1, call, TOOL_RESULT_INTERRUPT_MESSAGE),
                                TOOL_CALL_INTERRUPT_FAKE_MODEL_RSP),
                            r,
                            evs \o <<ToolResultEvent(call, TOOL_RESULT_INTERRUPT_MESSAGE),
                                     FakeTurnEvent(TOOL_CALL_INTERRUPT_FAKE_MODEL_RSP, intr)>>,
                            ToolImplOutput(TOOL_RESULT_INTERRUPT_MESSAGE,
                                           TOOL_RESULT_INTERRUPT_MESSAGE),
                            0, NoCall)
               ELSE Outcome("ToolExecuting", h1, r, evs, NoOutput, 0, call)

ModelReturns(shape) ==
    /\ pc = "AwaitingModel"
    /\ LET o == AfterModel(Blocks(shape, nextId), history, remaining_turns, interrupted)
       IN /\ Leave(o)
          /\ toolRuns' = toolRuns + (IF o.pc = "ToolExecuting" THEN 1 ELSE 0)
    /\ model_response' = Blocks(shape, nextId)
    /\ nextId' = nextId + Cardinality({i \in 1..Len(shape) : shape[i] = "tool"})
    /\ UNCHANGED <<interrupted, should_stop, tools, max_turns, session_id, modelCalls,
                   cancelAt, runs, emittedAtStart, consumerVars>>

\* Mutant of the stop check: should_stop() is not looked at.
AfterTool_IgnoresStop(call, stop, h, r, intr) ==
    LoopTop(add_tool_call_result(h, call, TOOL_OUTPUT), r, intr,
            <<ToolResultEvent(call, TOOL_OUTPUT)>>)

\* From the return of tool_manager.run_tool to the next model call (or to a return);
\* stop is what should_stop() answers after this execution.
AfterTool(call, stop, h, r, intr) ==
    LET h1 == add_tool_call_result(h, call, TOOL_OUTPUT)
        evs == <<ToolResultEvent(call, TOOL_OUTPUT)>>
    IN IF stop
       THEN Outcome("Completed", add_fake_assistant_turn(h1, FINAL_ANSWER), r,
                    Append(evs, FakeTurnEvent(FINAL_ANSWER, intr)),
                    ToolImplOutput(FINAL_ANSWER, TASK_COMPLETED), 0, NoCall)
       ELSE LoopTop(h1, r, intr, evs)

\* Mutant of the tool return: the result is dropped and the loop awaits the tool again.
ToolReturns_Lost(stop) ==
    /\ pc = "ToolExecuting"
    /\ should_stop' = stop
    /\ UNCHANGED <<history, interrupted, tools, max_turns, session_id, runVars, channelVars,
                   consumerVars>>

ToolReturns(stop) ==
    /\ pc = "ToolExecuting"
    /\ LET o == AfterTool(tool_call, stop, history, remaining_turns, interrupted)
       IN /\ Leave(o)
          /\ modelCalls' = modelCalls + o.called
    /\ should_stop' = stop
    /\ UNCHANGED <<interrupted, tools, max_turns, session_id, model_response, nextId,
                   toolRuns, cancelAt, runs, emittedAtStart, consumerVars>>

\* Mutant of cancel(): the call in flight is aborted and the run ended at once.
Cancel_Aborting ==
    /\ interrupted' = TRUE
    /\ cancelAt' = IF pc \in {"AwaitingModel", "ToolExecuting"} THEN pc ELSE cancelAt
    /\ pc' = IF pc \in {"AwaitingModel", "ToolExecuting"} THEN "InterruptedTerminal" ELSE pc
    /\ UNCHANGED <<history, should_stop, tools, max_turns, session_id,
                   remaining_turns, model_response, tool_call, result, nextId, modelCalls,
                   toolRuns, runs, emittedAtStart, channelVars, consumerVars>>

\* cancel()
Cancel ==
    /\ interrupted' = TRUE
    /\ cancelAt' = IF pc \in {"AwaitingModel", "ToolExecuting"} THEN pc ELSE cancelAt
    /\ UNCHANGED <<history, should_stop, tools, max_turns, session_id, pc,
                   remaining_turns, model_response, tool_call, result, nextId, modelCalls,
                   toolRuns, runs, emittedAtStart, channelVars, consumerVars>>

\* The owner of the session puts the first message of the user into the queue
\* before it starts the run for it.
UserMessages == Cardinality({i \in 1..Len(emitted) : emitted[i].type = USER_MESSAGE})

PutUserMessage ==
    /\ pc = "Idle"
    /\ UserMessages = 0
    /\ PutAll(<<RealtimeEvent(USER_MESSAGE, 0, "instruction")>>)
    /\ UNCHANGED <<agentVars, runVars, consumerVars>>

\* ------------------------------------------- Event Sink Fan-out (consumer)
\* start_message_processing
StartMessageProcessing ==
    /\ consumer = "off"
    /\ consumer' = "get"
    /\ UNCHANGED <<agentVars, runVars, channelVars, websocket, message, persisted, sent,
                   saveErrors, sendFailedAt>>

\* Mutant of the forwarding condition: the type of the event is not looked at.
ShouldForward_AnyType(msg, ws) == ws

\* message.type != EventType.USER_MESSAGE and self.websocket is not None
ShouldForward(msg, ws) == msg.type # USER_MESSAGE /\ ws

\* Mutant of the get: the newest event is taken, not the oldest.
NextMessage_Newest(q) == q[Len(q)]

\* message = await self.message_queue.get()
NextMessage(q) == Head(q)

\* One pass of the consumer from queue.get() to send_json (or to task_done), the
\* save not raising.
ConsumerTake ==
    /\ consumer = "get"
    /\ message_queue # <<>>
    /\ LET msg == NextMessage(message_queue)
       IN /\ message_queue' = Tail(message_queue)
          /\ persisted' = IF session_id THEN Append(persisted, msg) ELSE persisted
          /\ IF ShouldForward(msg, websocket)
             THEN /\ consumer' = "send"
                  /\ message' = msg
                  /\ unfinished' = unfinished
             ELSE /\ consumer' = "get"
                  /\ message' = NoMessage
                  /\ unfinished' = unfinished - 1
    /\ UNCHANGED <<agentVars, runVars, emitted, websocket, sent, saveErrors, sendFailedAt>>

\* Mutant of the outer handler: the error ends the consumer.
ConsumerSaveRaises_Stops ==
    /\ consumer = "get"
    /\ message_queue # <<>>
    /\ session_id
    /\ Cardinality(saveErrors) < MaxSaveFailures
    /\ LET msg == NextMessage(message_queue)
       IN /\ message_queue' = Tail(message_queue)
          /\ saveErrors' = saveErrors \cup {msg.seq}
    /\ consumer' = "stopped"
    /\ UNCHANGED <<agentVars, runVars, emitted, unfinished, websocket, message,
                   persisted, sent, sendFailedAt>>

\* One pass of the consumer in which Events.save_event raises: the outer handler
\* logs the error and the loop goes on with the next message.
ConsumerSaveRaises ==
    /\ consumer = "get"
    /\ message_queue # <<>>
    /\ session_id
    /\ Cardinality(saveErrors) < MaxSaveFailures
    /\ LET msg == NextMessage(message_queue)
       IN /\ message_queue' = Tail(message_queue)
          /\ saveErrors' = saveErrors \cup {msg.seq}
    /\ UNCHANGED <<agentVars, runVars, emitted, unfinished, websocket, consumer, message,
                   persisted, sent, sendFailedAt>>

\* send_json returns.
SendReturns ==
    /\ consumer = "send"
    /\ sent' = Append(sent, message)
    /\ unfinished' = unfinished - 1
    /\ consumer' = "get"
    /\ message' = NoMessage
    /\ UNCHANGED <<agentVars, runVars, message_queue, emitted, websocket, persisted,
                   saveErrors, sendFailedAt>>

\* Mutant of the failure handler: the websocket is kept.
SendRaises_KeepsSocket ==
    /\ consumer = "send"
    /\ sendFailedAt' = message.seq
    /\ unfinished' = unfinished - 1
    /\ consumer' = "get"
    /\ message' = NoMessage
    /\ UNCHANGED <<agentVars, runVars, message_queue, emitted, websocket, persisted, sent,
                   saveErrors>>

\* send_json raises: the warning is logged and the websocket is dropped.
SendRaises ==
    /\ consumer = "send"
    /\ websocket' = FALSE
    /\ sendFailedAt' = message.seq
    /\ unfinished' = unfinished - 1
    /\ consumer' = "get"
    /\ message' = NoMessage
    /\ UNCHANGED <<agentVars, runVars, message_queue, emitted, persisted, sent, saveErrors>>

\* The task returned by start_message_processing is cancelled: CancelledError is
\* raised at the await the consumer stands at, and the loop breaks.
StopConsumer ==
    /\ consumer \in {"get", "send"}
    /\ consumer' = "stopped"
    /\ message' = NoMessage
    /\ UNCHANGED <<agentVars, runVars, channelVars, websocket, persisted, sent, saveErrors,
                   sendFailedAt>>

\* ----------------------------------------------------------- the machine
Init ==
    /\ history = <<>>
    /\ interrupted = FALSE
    /\ should_stop = FALSE
    /\ tools \in ToolSets
    /\ max_turns \in 0..MaxTurnsBound
    /\ session_id \in BOOLEAN
    /\ websocket \in BOOLEAN
    /\ pc = "Idle"
    /\ remaining_turns = 0
    /\ model_response = <<>>
    /\ tool_call = NoCall
    /\ result = NoOutput
    /\ nextId = 1
    /\ modelCalls = 0
    /\ toolRuns = 0
    /\ cancelAt = "none"
    /\ runs = 0
    /\ emittedAtStart = 0
    /\ message_queue = <<>>
    /\ unfinished = 0
    /\ emitted = <<>>
    /\ consumer = "off"
    /\ message = NoMessage
    /\ persisted = <<>>
    /\ sent = <<>>
    /\ saveErrors = {}
    /\ sendFailedAt = 0

\* The agent alone: its runs and cancel(), the consumer not started.
NextAgent ==
    \/ \E resume \in BOOLEAN : StartRun(resume)
    \/ \E shape \in ResponseShapes : ModelReturns(shape)
    \/ \E stop \in BOOLEAN : ToolReturns(stop)
    \/ Cancel

\* The loop reads neither the session identifier nor the websocket.
InitAgent == Init /\ session_id = TRUE /\ websocket = TRUE

SpecAgent == InitAgent /\ [][NextAgent]_vars

\* The agent alone, every model call and every tool execution returning in the end:
\* run_in_executor and run_tool are awaited, and the event loop resumes run_impl
\* when they are done.
FairAgent ==
    /\ WF_vars(\E shape \in ResponseShapes : ModelReturns(shape))
    /\ WF_vars(\E stop \in BOOLEAN : ToolReturns(stop))

SpecAgentLive == InitAgent /\ [][NextAgent]_vars /\ FairAgent

Answering == Len(emitted) < MaxEvents

\* The agent, the owner of the session and the consumer.
Next ==
    \/ \E resume \in BOOLEAN : Answering /\ StartRun(resume)
    \/ \E shape \in ResponseShapes : Answering /\ ModelReturns(shape)
    \/ \E stop \in BOOLEAN : Answering /\ ToolReturns(stop)
    \/ Cancel
    \/ PutUserMessage
    \/ StartMessageProcessing
    \/ ConsumerTake
    \/ ConsumerSaveRaises
    \/ SendReturns
    \/ SendRaises
    \/ StopConsumer

Spec == Init /\ [][Next]_vars

\* ================================================================ claims
LastTurn(h) == h[Len(h)]
LastEvent == emitted[Len(emitted)]

ToolResultTurns(h) == {i \in 1..Len(h) : h[i].kind = "tool_result"}
AssistantTurns(h) == {i \in 1..Len(h) : h[i].kind = "assistant"}
ToolBlocksAt(h, i) == {n \in 1..Len(h[i].blocks) : h[i].blocks[n].t = "tool"}
ToolBlocks(h) == UNION {{<<i, n>> : n \in ToolBlocksAt(h, i)} : i \in AssistantTurns(h)}
\* The identifiers of the tool invocations appended before position i.
InvokedBefore(h, i) ==
    UNION {{h[j].blocks[n].id : n \in ToolBlocksAt(h, j)} : j \in {k \in AssistantTurns(h) : k < i}}

\* C1: in every reachable state the Ledger holds at most as many tool-result Turns
\* as tool-invocation blocks, every tool-result Turn directly follows an assistant
\* Turn (so at most one result is appended per assistant Turn), and every tool-result
\* Turn carries the identifier of a tool invocation appended before it.
C1_ToolResultsFollowInvocations ==
    /\ Cardinality(ToolResultTurns(history)) <= Cardinality(ToolBlocks(history))
    /\ \A i \in ToolResultTurns(history) :
          /\ i > 1
          /\ history[i - 1].kind = "assistant"
          /\ history[i].id \in InvokedBefore(history, i)

\* C1 witness: a tool was executed and its result appended, then the model called again.
C1_Witness ==
    /\ pc = "AwaitingModel"
    /\ ToolResultTurns(history) # {}
    /\ LastTurn(history).kind = "tool_result"
    /\ LastTurn(history).text = TOOL_OUTPUT

\* The fixed answer of a run that used up its turns: the event and the return value.
EndedInMaxTurns ==
    /\ pc = "MaxTurnsExceeded"
    /\ modelCalls = max_turns
    /\ emitted # <<>>
    /\ LastEvent.type = AGENT_RESPONSE
    /\ LastEvent.text = MAX_TURNS_ANSWER
    /\ result = ToolImplOutput(MAX_TURNS_ANSWER, MAX_TURNS_ANSWER)

ThisRun(h) == LastOfKind(h, "user")..Len(h)

NoEmptyAssistantTurn(h) == \A i \in AssistantTurns(h) : Len(h[i].blocks) > 0

EndsInterruptedPair(h) ==
    /\ Len(h) >= 2
    /\ h[Len(h) - 1].kind = "tool_result"
    /\ h[Len(h) - 1].text = TOOL_RESULT_INTERRUPT_MESSAGE
    /\ LastTurn(h) \in {AssistantTurn(<<TextResult(TOOL_CALL_INTERRUPT_FAKE_MODEL_RSP)>>),
                        AssistantTurn(<<TextResult(AGENT_INTERRUPT_FAKE_MODEL_RSP)>>)}

\* C4 as stated: a run in which cancel() was called while the tool execution was
\* outstanding ends in InterruptedTerminal, the Ledger ending with a tool-result Turn
\* marked interrupted followed by a synthetic assistant Turn.
C4_CancelDuringTool ==
    (pc \in Terminal /\ cancelAt = "ToolExecuting") =>
        /\ pc = "InterruptedTerminal"
        /\ EndsInterruptedPair(history)

\* A step in which client.generate returns and run_impl goes on to its next await or return.
ModelStep == pc = "AwaitingModel" /\ pc' # "AwaitingModel"

ToolCount(rsp) == Cardinality({n \in 1..Len(rsp) : rsp[n].t = "tool"})

\* The events put into the channel by the step.
NewEvents == SubSeq(emitted', Len(emitted) + 1, Len(emitted'))

\* C5: when the model response holds more than one tool invocation the run raises:
\* the assistant Turn, and nothing else, is appended to the Ledger, no tool is
\* executed, and the step emits no tool-call and no tool-result event.
C5_MoreThanOneToolCall ==
    [][(ModelStep /\ ToolCount(model_response') > 1) =>
          /\ pc' = "Raised"
          /\ result' = NoOutput
          /\ history' = Append(history, AssistantTurn(model_response'))
          /\ toolRuns' = toolRuns
          /\ \A i \in 1..Len(NewEvents) : NewEvents[i].type = AGENT_THINKING]_vars

\* C5 witness: a run that raised on a response of two tool invocations.
C5_Witness ==
    /\ pc = "Raised"
    /\ ToolCount(model_response) = 2
    /\ LastTurn(history) = AssistantTurn(model_response)
    /\ ToolResultTurns(history) = {}

IsResponseEvent(e) == e.type \in {AGENT_RESPONSE, AGENT_RESPONSE_INTERRUPTED}

\* C6: when the model response holds no tool invocation (the empty response
\* included, which is replaced by the one-block placeholder) the step appends exactly
\* one assistant Turn, which is not empty, emits the agent-response event with the
\* fixed completion message as its last and only response event, and ends the run in
\* Completed without a tool execution or a further model call.
C6_NoToolCallCompletes ==
    [][(ModelStep /\ ToolCount(model_response') = 0) =>
          /\ history' = Append(history,
                 AssistantTurn(IF model_response' = <<>>
                               THEN <<TextResult(COMPLETE_MESSAGE)>>
                               ELSE model_response'))
          /\ NoEmptyAssistantTurn(history')
          /\ pc' = "Completed"
          /\ LastEvent'.type = AGENT_RESPONSE
          /\ LastEvent'.text = TASK_COMPLETED
          /\ Cardinality({i \in 1..Len(NewEvents) : IsResponseEvent(NewEvents[i])}) = 1
          /\ toolRuns' = toolRuns
          /\ modelCalls' = modelCalls]_vars

\* C6 witness: a run completed on an empty response, the placeholder in the Ledger.
C6_Witness ==
    /\ pc = "Completed"
    /\ model_response = <<>>
    /\ LastTurn(history) = AssistantTurn(<<TextResult(COMPLETE_MESSAGE)>>)
    /\ LastEvent.text = TASK_COMPLETED

Count(e, s) == Cardinality({i \in 1..Len(s) : s[i] = e})

\* Since the send of event number k raised: the websocket is cleared, no send is
\* outstanding, nothing after event k was sent, and every event from k on that the
\* consumer took with a session identifier is persisted unless its own save raised.
DegradedSince(k) ==
    /\ ~websocket
    /\ consumer # "send"
    /\ \A i \in 1..Len(sent) : sent[i].seq < k
    /\ session_id =>
          \A i \in k..Len(emitted) :
              \/ Count(emitted[i], message_queue) = 1
              \/ Count(emitted[i], persisted) = 1
              \/ i \in saveErrors

\* C7: once forwarding an event to the transport has failed, the transport
\* reference is cleared and stays cleared, later events are persisted and none of
\* them is sent; the failing step leaves the consumer running and the turn loop
\* (the agent and its run) untouched.
C7_TransportFailureDegrades ==
    /\ [](sendFailedAt # 0 => DegradedSince(sendFailedAt))
    /\ [][sendFailedAt' # sendFailedAt =>
             /\ consumer' = "get"
             /\ Count(message, persisted) = (IF session_id THEN 1 ELSE 0)
             /\ UNCHANGED <<agentVars, runVars, message_queue, emitted, persisted, sent>>]_vars

\* C7 witness: the send of an event failed, and later events were persisted and not sent.
C7_Witness ==
    /\ sendFailedAt # 0
    /\ \E i \in 1..Len(persisted) : persisted[i].seq > sendFailedAt + 1
    /\ sent # <<>>
    /\ consumer = "get"

\* s holds events of the channel, in the order they were emitted.
InEmissionOrder(s) ==
    /\ \A i \in 1..Len(s) : s[i].seq \in 1..Len(emitted) /\ s[i] = emitted[s[i].seq]
    /\ \A i, j \in 1..Len(s) : i < j => s[i].seq < s[j].seq

\* C8: the persisted events are in the order the loop emitted them, and so are
\* the events that reached the transport.
C8_EmissionOrderKept ==
    /\ InEmissionOrder(persisted)
    /\ InEmissionOrder(sent)
    /\ InEmissionOrder(message_queue)

\* C8 witness: three events persisted while the loop went on emitting, two of them
\* forwarded and one (the user message) not.
C8_Witness ==
    /\ Len(persisted) >= 3
    /\ Len(sent) >= 2
    /\ \E i \in 1..Len(persisted) : Count(persisted[i], sent) = 0 /\ persisted[i].seq < sent[1].seq
    /\ message_queue # <<>>

\* C9 as stated, no save raising: with a session identifier every emitted event is
\* persisted exactly once, or is still in the channel with a consumer that is not
\* stopped, or is the one the consumer is handling.
C9_Original ==
    (session_id /\ saveErrors = {}) =>
        \A i \in 1..Len(emitted) :
            \/ Count(emitted[i], persisted) = 1
            \/ consumer # "stopped" /\ Count(emitted[i], message_queue) = 1

\* C9 amended: no event is duplicated, and an event is lost only to a save that
\* raised: with a session identifier every emitted event is exactly one of in the
\* channel, persisted once, or logged as failed to save (events in the channel of
\* a stopped consumer stay there); without one nothing is persisted.
C9_NoLossNoDuplicate ==
    /\ session_id =>
          \A i \in 1..Len(emitted) :
              Count(emitted[i], persisted) + Count(emitted[i], message_queue)
                  + (IF i \in saveErrors THEN 1 ELSE 0) = 1
    /\ ~session_id => persisted = <<>>

\* C9 witness: the consumer was stopped after persisting events, others left in the channel.
C9_Witness ==
    /\ session_id
    /\ consumer = "stopped"
    /\ Len(persisted) >= 2
    /\ message_queue # <<>>

NoUserMessageSent == \A i \in 1..Len(sent) : sent[i].type # USER_MESSAGE

\* A step in which the consumer takes the oldest event of the channel.
ConsumerTakes ==
    /\ consumer = "get"
    /\ message_queue # <<>>
    /\ emitted' = emitted
    /\ message_queue' = Tail(message_queue)

\* A step in which send_json returns.
SendDone == consumer = "send" /\ consumer' = "get" /\ websocket'

\* C10 as stated: no user-message event is sent to the transport, and every event
\* of another type taken while the websocket is set is handed to send_json, whose
\* return adds it to what the transport received.
C10_Original ==
    /\ []NoUserMessageSent
    /\ [][/\ (ConsumerTakes /\ websocket /\ Head(message_queue).type # USER_MESSAGE) =>
                 (consumer' = "send" /\ message' = Head(message_queue))
          /\ SendDone => sent' = Append(sent, message)]_vars

\* C10 amended: the same, for the events whose save did not raise; an event whose
\* save raises is forwarded to nobody.
C10_ForwardingFilter ==
    /\ []NoUserMessageSent
    /\ [][/\ (ConsumerTakes /\ websocket /\ Head(message_queue).type # USER_MESSAGE) =>
                 IF Head(message_queue).seq \in saveErrors'
                 THEN consumer' = "get" /\ sent' = sent
                 ELSE consumer' = "send" /\ message' = Head(message_queue)
          /\ (ConsumerTakes /\ Head(message_queue).type = USER_MESSAGE) => consumer' = "get"
          /\ SendDone => sent' = Append(sent, message)]_vars

\* C10 witness: the user message was persisted and not sent, a later event was sent.
C10_Witness ==
    /\ websocket
    /\ \E i \in 1..Len(persisted) : persisted[i].type = USER_MESSAGE
    /\ sent # <<>>
    /\ NoUserMessageSent

\* The texts a run may return: the final answer of a tool, the fixed completion
\* message, the fixed max-turns message, the two fixed interruption messages.
ReturnTexts ==
    {FINAL_ANSWER, TASK_COMPLETED, MAX_TURNS_ANSWER, AGENT_INTERRUPT_MESSAGE,
     TOOL_RESULT_INTERRUPT_MESSAGE}

\* C11 as stated: the tool_output of the ToolImplOutput a run returns is one of the
\* final answer, the fixed completion message, the fixed max-turns message or a fixed
\* interruption message, and a run raises only on duplicated tool names or on a
\* response with more than one tool invocation.
C11_ReturnValues ==
    /\ pc \in Returned => result.tool_output \in ReturnTexts
    /\ pc = "Raised" =>
          \/ ToolDuplicated(tools)
          \/ Cardinality(ToolBlocksAt(history, Len(history))) > 1

\* C12 as stated: with two tools of the same name, starting a run raises before the
\* instruction is appended to the Ledger, before remaining_turns is decremented and
\* before any event is put into the channel.
C12_DuplicateToolsAtSetup ==
    [][(ToolDuplicated(tools) /\ runs' = runs + 1) =>
          /\ pc' = "Raised"
          /\ LastOfKind(history', "user") = 0
          /\ remaining_turns' \in {remaining_turns, max_turns}
          /\ emitted' = emitted]_vars

InFlight == pc \in {"AwaitingModel", "ToolExecuting"}

\* C13: cancel() only sets the flag: the step leaves the run, the Ledger and the
\* channel as they are, the call in flight included.  With the flag set, the step in
\* which the call in flight returns ends the run: it starts no model call and no
\* tool execution.
C13_CancelCooperativeBounded ==
    [][/\ (interrupted' /\ ~interrupted) =>
              UNCHANGED <<history, pc, remaining_turns, tool_call, result, modelCalls,
                          toolRuns, emitted>>
       /\ (interrupted /\ InFlight /\ pc' # pc) =>
              /\ pc' \in Terminal
              /\ modelCalls' = modelCalls
              /\ toolRuns' = toolRuns]_vars

\* C13 witness: cancel() came during the second model call of a run; the call returned
\* a tool invocation, which was not executed.
C13_Witness ==
    /\ pc = "InterruptedTerminal"
    /\ cancelAt = "AwaitingModel"
    /\ modelCalls = 2
    /\ toolRuns = 1
    /\ interrupted

\* s is what is left of t when Turns are dropped from its front.
IsSuffix(s, t) == Len(s) <= Len(t) /\ s = SubSeq(t, Len(t) - Len(s) + 1, Len(t))

C15_RunTerminates ==
    /\ [](consumer = "off" /\ message_queue = emitted)
    /\ InFlight ~> (pc \in Terminal)

\* C15 witness: a run used up two turns and ended, five events waiting in the
\* channel of a consumer that never took one.
C15_Witness ==
    /\ pc = "MaxTurnsExceeded"
    /\ consumer = "off"
    /\ toolRuns = 2
    /\ Len(message_queue) >= 5
    /\ persisted = <<>>

\* Event number i is in the channel, or persisted once, or its own save raised.
KeptOrFailed(i) ==
    Count(emitted[i], message_queue) + Count(emitted[i], persisted)
        + (IF i \in saveErrors THEN 1 ELSE 0) = 1

\* C16: the step in which Events.save_event raises for an event takes that event
\* from the channel, leaves the consumer at its next queue.get() and changes nothing
\* of the agent or its run; every event emitted after it is still in the channel or
\* is persisted once, unless its own save raised.
C16_PersistenceFailureRecovered ==
    /\ [](\A k \in saveErrors : \A i \in (k + 1)..Len(emitted) : KeptOrFailed(i))
    /\ [][saveErrors' # saveErrors =>
             /\ consumer = "get" /\ consumer' = "get"
             /\ message_queue' = Tail(message_queue)
             /\ Head(message_queue).seq \in saveErrors'
             /\ UNCHANGED <<agentVars, runVars, emitted, persisted, sent, websocket>>]_vars

\* C16 witness: the save of an event raised, and the consumer went on to persist the
\* event emitted after it while the run went on.
C16_Witness ==
    /\ saveErrors # {}
    /\ consumer = "get"
    /\ \E k \in saveErrors : \E i \in 1..Len(persisted) : persisted[i].seq = k + 1
    /\ pc \in {"AwaitingModel", "ToolExecuting"}

\* A step in which run_tool returns and run_impl goes on to its next await or return.
ToolStep == pc = "ToolExecuting" /\ pc' # "ToolExecuting"

\* The events of s without their position in the channel.
Unnumbered(s) == [i \in 1..Len(s) |-> RealtimeEvent(s[i].type, s[i].id, s[i].text)]

\* The events of s of the given type.
OfType(s, type) == SelectSeq(Unnumbered(s), LAMBDA e : e.type = type)

\* C17: when the loop comes to the checkpoint before the model call with the flag set
\* (the tool returned without stop, turns remain), the step makes no model call and
\* starts no tool, appends after the tool-result Turn exactly one synthetic assistant
\* Turn with the fixed text, puts exactly one agent-response-interrupted event, as
\* the last event, and ends the run in InterruptedTerminal with the fixed message.
C17_FirstCheckpoint ==
    [][(ToolStep /\ interrupted /\ ~should_stop' /\ TurnBudgetLeft(remaining_turns)) =>
          /\ pc' = "InterruptedTerminal"
          /\ modelCalls' = modelCalls
          /\ toolRuns' = toolRuns
          /\ Len(history') >= 2
          /\ LastTurn(history') = AssistantTurn(<<TextResult(AGENT_INTERRUPT_FAKE_MODEL_RSP)>>)
          /\ history'[Len(history') - 1] = ToolResultTurn(tool_call.id, TOOL_OUTPUT)
          /\ OfType(NewEvents, AGENT_RESPONSE_INTERRUPTED) =
                 <<RealtimeEvent(AGENT_RESPONSE_INTERRUPTED, 0, AGENT_INTERRUPT_FAKE_MODEL_RSP)>>
          /\ LastEvent'.type = AGENT_RESPONSE_INTERRUPTED
          /\ OfType(NewEvents, AGENT_RESPONSE) = <<>>
          /\ result' = ToolImplOutput(AGENT_INTERRUPT_MESSAGE, AGENT_INTERRUPT_MESSAGE)]_vars

\* C17 witness: a run ended at the checkpoint before its second model call.
C17_Witness ==
    /\ pc = "InterruptedTerminal"
    /\ result = ToolImplOutput(AGENT_INTERRUPT_MESSAGE, AGENT_INTERRUPT_MESSAGE)
    /\ LastTurn(history) = AssistantTurn(<<TextResult(AGENT_INTERRUPT_FAKE_MODEL_RSP)>>)
    /\ modelCalls = 1
    /\ max_turns = 2

\* C18: when the model call returns one tool invocation with the flag set, the step
\* starts no tool, appends the assistant Turn, a tool-result Turn for the call with the
\* fixed interrupted text and a synthetic assistant Turn, puts (after the
\* agent-thinking events) a tool-call, a tool-result and an
\* agent-response-interrupted event in that order, and ends the run in
\* InterruptedTerminal.
C18_SecondCheckpoint ==
    [][(ModelStep /\ interrupted /\ ToolCount(model_response') = 1) =>
          LET call == SelectSeq(model_response', LAMBDA b : b.t = "tool")[1]
              rest == SelectSeq(Unnumbered(NewEvents), LAMBDA e : e.type # AGENT_THINKING)
          IN /\ pc' = "InterruptedTerminal"
             /\ toolRuns' = toolRuns
             /\ history' = history \o
                    <<AssistantTurn(model_response'),
                      ToolResultTurn(call.id, TOOL_RESULT_INTERRUPT_MESSAGE),
                      AssistantTurn(<<TextResult(TOOL_CALL_INTERRUPT_FAKE_MODEL_RSP)>>)>>
             /\ rest = <<RealtimeEvent(TOOL_CALL, call.id, ""),
                         RealtimeEvent(TOOL_RESULT, call.id, TOOL_RESULT_INTERRUPT_MESSAGE),
                         RealtimeEvent(AGENT_RESPONSE_INTERRUPTED, 0,
                                       TOOL_CALL_INTERRUPT_FAKE_MODEL_RSP)>>
             /\ SubSeq(Unnumbered(NewEvents), Len(NewEvents) - 2, Len(NewEvents)) = rest
             /\ result' = ToolImplOutput(TOOL_RESULT_INTERRUPT_MESSAGE,
                                         TOOL_RESULT_INTERRUPT_MESSAGE)]_vars

\* C18 witness: a run ended at the checkpoint before its first tool execution.
C18_Witness ==
    /\ pc = "InterruptedTerminal"
    /\ toolRuns = 0
    /\ modelCalls = 1
    /\ result = ToolImplOutput(TOOL_RESULT_INTERRUPT_MESSAGE, TOOL_RESULT_INTERRUPT_MESSAGE)
    /\ EndsInterruptedPair(history)
    /\ LastEvent.type = AGENT_RESPONSE_INTERRUPTED

\* C19: when should_stop() answers true after a tool execution, the step appends the
\* tool-result Turn and then a synthetic assistant Turn with the final answer, makes
\* no model call, and ends the run in Completed, returning the final answer.
C19_StopAfterTool ==
    [][(ToolStep /\ should_stop') =>
          /\ history' = history \o
                 <<ToolResultTurn(tool_call.id, TOOL_OUTPUT),
                   AssistantTurn(<<TextResult(FINAL_ANSWER)>>)>>
          /\ modelCalls' = modelCalls
          /\ toolRuns' = toolRuns
          /\ pc' = "Completed"
          /\ result'.tool_output = FINAL_ANSWER
          /\ LastEvent'.text = FINAL_ANSWER]_vars

\* C19 witness: a run completed by a tool that signalled stop, with turns left.
C19_Witness ==
    /\ pc = "Completed"
    /\ should_stop
    /\ remaining_turns > 0
    /\ result = ToolImplOutput(FINAL_ANSWER, TASK_COMPLETED)
    /\ LastTurn(history) = AssistantTurn(<<TextResult(FINAL_ANSWER)>>)

\* The positions of the text and reasoning blocks of a response, and the n-th of them.
TextPositions(rsp) == {p \in 1..Len(rsp) : rsp[p].t # "tool"}

NthTextBlock(rsp, n) ==
    rsp[CHOOSE p \in TextPositions(rsp) :
            Cardinality({q \in TextPositions(rsp) : q <= p}) = n]

\* The text of the agent-thinking event of a block: a reasoning block is wrapped.
EventText(b) == IF b.t = "thinking" THEN WRAPPED_THINKING ELSE b.text

\* C20: the step in which a model response arrives appends the response (the
\* placeholder for an empty one) as the assistant Turn and puts one agent-thinking
\* event per text or reasoning block of it, in the order of the blocks, none for a
\* tool invocation; these are the first events of the step, before its tool-call,
\* tool-result and agent-response events.  No other step puts an agent-thinking event.
C20_ThinkingEvents ==
    [][/\ ModelStep =>
              LET i == Len(history) + 1
                  rsp == history'[i].blocks
                  n == Cardinality(TextPositions(rsp))
              IN /\ Len(history') >= i
                 /\ history'[i] = AssistantTurn(IF model_response' = <<>>
                                                THEN <<TextResult(COMPLETE_MESSAGE)>>
                                                ELSE model_response')
                 /\ Len(NewEvents) >= n
                 /\ \A k \in 1..n :
                        Unnumbered(NewEvents)[k] =
                            RealtimeEvent(AGENT_THINKING, 0, EventText(NthTextBlock(rsp, k)))
                 /\ \A k \in (n + 1)..Len(NewEvents) : NewEvents[k].type # AGENT_THINKING
       /\ ~ModelStep => OfType(NewEvents, AGENT_THINKING) = <<>>]_vars

\* C20 witness: a response of a reasoning block and a text block was answered by two
\* agent-thinking events, the wrapped reasoning first, and the completion event.
C20_Witness ==
    /\ pc = "Completed"
    /\ Len(model_response) = 2
    /\ model_response[1].t = "thinking"
    /\ Len(emitted) = 3
    /\ emitted[1].text = WRAPPED_THINKING
    /\ emitted[2].text = MODEL_TEXT
    /\ emitted[3].type = AGENT_RESPONSE

\* The positions in emitted of the events the current run has put.
RunEvents == (emittedAtStart + 1)..Len(emitted)

\* Event number i is the tool-call event of the call with identifier id.
IsToolCallFor(i, id) == emitted[i].type = TOOL_CALL /\ emitted[i].id = id

\* C21: every tool-result event of a run comes after a tool-call event of that run
\* with the same identifier; while a tool execution is outstanding the tool-call
\* event of its call is already in the channel; and the step that starts a tool
\* execution is the one that puts the tool-call event for it, as its last event.
C21_ToolCallBeforeExecution ==
    /\ [](\A i \in RunEvents :
              emitted[i].type = TOOL_RESULT =>
                  \E j \in RunEvents : j < i /\ IsToolCallFor(j, emitted[i].id))
    /\ [](pc = "ToolExecuting" =>
              \E j \in RunEvents : IsToolCallFor(j, tool_call.id))
    /\ [][toolRuns' = toolRuns + 1 =>
              /\ Len(emitted') > Len(emitted)
              /\ LastEvent'.type = TOOL_CALL
              /\ LastEvent'.id = tool_call'.id
              /\ tool_call'.id # 0]_vars

\* C21 witness: a second run has a tool executing for which it put the tool-call
\* event, after the tool-call and tool-result events of an execution before it.
C21_Witness ==
    /\ pc = "ToolExecuting"
    /\ runs = 2
    /\ toolRuns = 2
    /\ LastEvent.type = TOOL_CALL
    /\ \E i \in RunEvents : emitted[i].type = TOOL_RESULT

\* The terminal response events the current run has put.
RunResponses == {i \in RunEvents : IsResponseEvent(emitted[i])}

\* C22: a run that has returned has put exactly one agent-response or
\* agent-response-interrupted event, which is its last event; a run that has not
\* returned has put none.
C22_OneTerminalResponse ==
    /\ pc \in Returned =>
          /\ Cardinality(RunResponses) = 1
          /\ Len(emitted) \in RunResponses
    /\ pc \notin Returned => RunResponses = {}

\* C22 witness: a second run returned after a tool execution; the response event of
\* the first run is in the channel before the events of the second.
C22_Witness ==
    /\ pc \in Returned
    /\ runs = 2
    /\ toolRuns = 1
    /\ emittedAtStart > 0
    /\ IsResponseEvent(emitted[emittedAtStart])
    /\ Cardinality(RunResponses) = 1

\* C23 as stated: a run that has returned has put an agent-response-interrupted
\* event if and only if it ended in InterruptedTerminal; a run that ended in
\* Completed or MaxTurnsExceeded has put an agent-response event.
C23_InterruptedEventIffInterrupted ==
    pc \in Returned =>
        /\ (\E i \in RunEvents : emitted[i].type = AGENT_RESPONSE_INTERRUPTED)
               <=> pc = "InterruptedTerminal"
        /\ pc \in {"Completed", "MaxTurnsExceeded"} =>
               \E i \in RunEvents : emitted[i].type = AGENT_RESPONSE

\* C24 as stated: when a run has returned, the last Turn of the Ledger is an
\* assistant Turn.
C24_LedgerEndsWithAssistantTurn ==
    pc \in Returned => (history # <<>> /\ LastTurn(history).kind = "assistant")

\* C25 as stated: while a model call is outstanding, every tool invocation in the
\* Ledger has a tool-result Turn of the same identifier after it.
C25_NoOrphanAtModelCall ==
    pc = "AwaitingModel" => \A i \in 1..Len(history) : ~HasOrphan(history, i)

\* C26: the step that starts a run resets the flag and never ends the run
\* interrupted, whatever the flag was: with turns to use and unique tool names it
\* goes on to the first model call.  A run ends in InterruptedTerminal only after a
\* cancel() that came while its model call or its tool execution was outstanding.
C26_CancelBetweenRunsIgnored ==
    /\ [][runs' = runs + 1 =>
             /\ ~interrupted'
             /\ pc' # "InterruptedTerminal"
             /\ (max_turns > 0 /\ ~ToolDuplicated(tools)) => pc' = "AwaitingModel"]_vars
    /\ [](pc = "InterruptedTerminal" => cancelAt \in {"AwaitingModel", "ToolExecuting"})

\* C26 witness: the first run ended interrupted, so the flag was set while no run was
\* in progress; the second run started all the same, executed a tool and completed
\* with the flag reset.
C26_Witness ==
    /\ runs = 2
    /\ emittedAtStart > 0
    /\ emitted[emittedAtStart].type = AGENT_RESPONSE_INTERRUPTED
    /\ ~interrupted
    /\ cancelAt = "none"
    /\ pc = "Completed"
    /\ toolRuns = 1

\* C27 as stated: while the consumer is not stopped, the unfinished events of the
\* channel are those still in it and the one being sent: every event taken was
\* acknowledged once its pass ended, whether its save or its send raised or not; so
\* with the channel empty and no send outstanding the count is zero.
C27_EveryEventAcknowledged ==
    consumer # "stopped" =>
        unfinished = Len(message_queue) + (IF consumer = "send" THEN 1 ELSE 0)

====
